---- MODULE Spec2Model ----
(***************************************************************************)
(* Model of fake_news_detector.py: the rule-based scorer                   *)
(* (SimpleRuleBasedDetector), the sentiment-pipeline wrapper               *)
(* (TransformerBasedDetector) and their combination                        *)
(* (FakeNewsDetector.predict).                                             *)
(*                                                                         *)
(* Texts are sequences of one-character strings, so that lower(), split(), *)
(* count(), the "in" test and re.search act on characters as they do in    *)
(* the code.  Scores are exact rationals [n, d] in lowest terms; Python's  *)
(* round(x, 3) yields an integer number of thousandths.  Where the exact   *)
(* value lies half-way between two thousandths the binary float that the   *)
(* code holds lies on either side of it, so both neighbours are possible.  *)
(***************************************************************************)
EXTENDS Integers, Sequences, FiniteSets, TLC

\* ------------------------------------------------------------ characters

UpperSeq ==
    <<"A","B","C","D","E","F","G","H","I","J","K","L","M",
      "N","O","P","Q","R","S","T","U","V","W","X","Y","Z">>

LowerSeq ==
    <<"a","b","c","d","e","f","g","h","i","j","k","l","m",
      "n","o","p","q","r","s","t","u","v","w","x","y","z">>

UpperChars == {UpperSeq[i] : i \in DOMAIN UpperSeq}

LowerChars == {LowerSeq[i] : i \in DOMAIN LowerSeq}

\* str.split() and str.strip() without arguments act on whitespace.
Whitespace == {" ", "\t", "\n"}

\* c.isupper()
isupper(c) == c \in UpperChars

\* c.isalpha()
isalpha(c) == c \in UpperChars \cup LowerChars

LowerOf == [c \in UpperChars |-> LowerSeq[CHOOSE i \in DOMAIN UpperSeq : UpperSeq[i] = c]]

\* str.lower(), one character
lower_char(c) == IF c \in UpperChars THEN LowerOf[c] ELSE c

\* str.lower()
lower(s) == [i \in 1..Len(s) |-> lower_char(s[i])]

\* ------------------------------------------------------------ str methods

\* "word in text": word occurs in text as a contiguous run of characters
contains(text, word) ==
    \E i \in 1..(Len(text) - Len(word) + 1) :
        \A j \in 1..Len(word) : text[i + j - 1] = word[j]

\* text.count(ch)
count(text, ch) == Cardinality({i \in 1..Len(text) : text[i] = ch})

\* len(text.split()): the maximal runs of non-whitespace characters
split_len(text) ==
    Cardinality({i \in 1..Len(text) :
                    /\ text[i] \notin Whitespace
                    /\ (i = 1 \/ text[i - 1] \in Whitespace)})

\* an empty-text test without the strip()
is_blank_mut_nostrip(text) == Len(text) = 0

\* line 164: not text or len(text.strip()) == 0
is_blank(text) == \A i \in 1..Len(text) : text[i] \in Whitespace

\* a strip that leaves the whitespace at the end
strip_mut_left(text) ==
    LET inked == {i \in 1..Len(text) : text[i] \notin Whitespace}
    IN  IF inked = {} THEN <<>>
        ELSE SubSeq(text, CHOOSE i \in inked : \A j \in inked : i <= j, Len(text))

\* text.strip()
strip(text) ==
    LET inked == {i \in 1..Len(text) : text[i] \notin Whitespace}
    IN  IF inked = {} THEN <<>>
        ELSE SubSeq(text, CHOOSE i \in inked : \A j \in inked : i <= j,
                          CHOOSE i \in inked : \A j \in inked : i >= j)

\* a slice that hands the whole text on
prefix_mut_full(text, n) == text

\* text[:n]
prefix(text, n) == IF Len(text) <= n THEN text ELSE SubSeq(text, 1, n)

\* ------------------------------------------------------------ arithmetic

RECURSIVE GCD(_, _)
GCD(a, b) == IF b = 0 THEN a ELSE GCD(b, a % b)

\* the rational n/d (n >= 0, d > 0) in lowest terms
Rat(n, d) == LET g == GCD(n, d) IN [n |-> n \div g, d |-> d \div g]

Zero == Rat(0, 1)

One == Rat(1, 1)

Half == Rat(1, 2)

RAdd(a, b) == Rat(a.n * b.d + b.n * a.d, a.d * b.d)

RMul(a, b) == Rat(a.n * b.n, a.d * b.d)

RLess(a, b) == a.n * b.d < b.n * a.d

RLeq(a, b) == a.n * b.d <= b.n * a.d

\* a - b for a >= b
RSub(a, b) == Rat(a.n * b.d - b.n * a.d, a.d * b.d)

\* abs(a - b)
RAbsDiff(a, b) == IF RLess(a, b) THEN RSub(b, a) ELSE RSub(a, b)

\* min(a, b)
RMin(a, b) == IF RLess(b, a) THEN b ELSE a

\* sum(scores)
RECURSIVE RSum(_)
RSum(scores) == IF scores = <<>> THEN Zero ELSE RAdd(Head(scores), RSum(Tail(scores)))

\* round(x, 3), in thousandths: the nearest thousandth, either neighbour on
\* an exact tie
round3(x) ==
    LET q == (1000 * x.n) \div x.d
        r == (1000 * x.n) % x.d
    IN  IF 2 * r < x.d THEN {q}
        ELSE IF 2 * r > x.d THEN {q + 1}
        ELSE {q, q + 1}

\* ------------------------------------------------------------ SimpleRuleBasedDetector

SENSATIONAL_WORDS == <<
    <<"s","h","o","c","k","i","n","g">>,
    <<"u","n","b","e","l","i","e","v","a","b","l","e">>,
    <<"y","o","u"," ","w","o","n","'","t"," ","b","e","l","i","e","v","e">>,
    <<"t","h","i","s"," ","w","i","l","l"," ","s","h","o","c","k"," ","y",
      "o","u">>,
    <<"c","e","l","e","b","r","i","t","i","e","s"," ","h","a","t","e">>,
    <<"d","o","c","t","o","r","s"," ","h","a","t","e">>,
    <<"g","o","v","e","r","n","m","e","n","t"," ","d","o","e","s","n","'",
      "t"," ","w","a","n","t"," ","y","o","u"," ","t","o"," ","k","n","o",
      "w">>,
    <<"o","n","e"," ","w","e","i","r","d"," ","t","r","i","c","k">>,
    <<"n","u","m","b","e","r"," ","7"," ","w","i","l","l"," ","b","l","o",
      "w"," ","y","o","u","r"," ","m","i","n","d">>,
    <<"h","e"," ","d","i","d"," ","w","h","a","t","?","!">>,
    <<"s","h","e"," ","s","e","c","r","e","t","l","y">>,
    <<"h","e"," ","s","e","c","r","e","t","l","y">>,
    <<"t","h","i","s"," ","i","s"," ","w","h","y">>,
    <<"t","h","e"," ","t","r","u","t","h"," ","a","b","o","u","t">>
    >>

\* One entry per regular expression of the list.  (?i) makes a literal match
\* in any case; [\!\?]{3,} is a run of three or more of the two characters.
SUSPICIOUS_PATTERNS == <<
    [kind |-> "literal", lit |->
    <<"a","l","l"," ","c","a","p","s">>],
    [kind |-> "run", chars |-> {"!", "?"}, atleast |-> 3],
    [kind |-> "literal", lit |->
    <<"y","o","u"," ","w","o","n","'","t"," ","b","e","l","i","e","v","e">>],
    [kind |-> "literal", lit |->
    <<"s","p","o","n","s","o","r","e","d"," ","c","o","n","t","e","n","t">>]
    >>

\* a search that forgets the (?i) of the patterns
re_search_mut_case(pattern, text) ==
    IF pattern.kind = "literal"
    THEN contains(text, pattern.lit)
    ELSE \E i \in 1..(Len(text) - pattern.atleast + 1) :
            \A j \in 0..(pattern.atleast - 1) : text[i + j] \in pattern.chars

\* re.search(pattern, text)
re_search(pattern, text) ==
    IF pattern.kind = "literal"
    THEN contains(lower(text), pattern.lit)
    ELSE \E i \in 1..(Len(text) - pattern.atleast + 1) :
            \A j \in 0..(pattern.atleast - 1) : text[i + j] \in pattern.chars

Max(a, b) == IF a >= b THEN a ELSE b

\* lines 48-51: the listed phrases found in the lower-cased text
sensational_count(text) ==
    Cardinality({k \in DOMAIN SENSATIONAL_WORDS :
                    contains(lower(text), SENSATIONAL_WORDS[k])})

\* a sensational rule whose contribution is not capped
sensational_mut_uncapped(text) ==
    IF sensational_count(text) > 0
    THEN <<RMul(Rat(sensational_count(text), 1), Rat(15, 100))>>
    ELSE <<>>

sensational_scores(text) ==
    IF sensational_count(text) > 0
    THEN <<RMin(RMul(Rat(sensational_count(text), 1), Rat(15, 100)), Half)>>
    ELSE <<>>

\* lines 53-56
exclamation_ratio(text) == Rat(count(text, "!"), Max(split_len(text), 1))

\* an exclamation rule whose contribution is not capped
exclamation_mut_uncapped(text) ==
    IF RLess(Rat(5, 100), exclamation_ratio(text))
    THEN <<RMul(exclamation_ratio(text), Rat(2, 1))>>
    ELSE <<>>

exclamation_scores(text) ==
    IF RLess(Rat(5, 100), exclamation_ratio(text))
    THEN <<RMin(RMul(exclamation_ratio(text), Rat(2, 1)), Rat(3, 10))>>
    ELSE <<>>

\* lines 58-61
caps_ratio(text) ==
    Rat(Cardinality({i \in 1..Len(text) : isupper(text[i])}),
        Max(Cardinality({i \in 1..Len(text) : isalpha(text[i])}), 1))

caps_scores(text) ==
    IF RLess(Rat(3, 10), caps_ratio(text)) THEN <<Rat(2, 10)>> ELSE <<>>

\* lines 63-66: one 0.15 for every pattern of the list that is found
pattern_scores(text) ==
    LET found == SelectSeq(SUSPICIOUS_PATTERNS, LAMBDA p : re_search(p, text))
    IN  [i \in 1..Len(found) |-> Rat(15, 100)]

\* a length rule that lets a text without words pass
length_mut_nonempty(text) ==
    LET word_count == split_len(text)
    IN  IF (0 < word_count /\ word_count < 5) \/ word_count > 500
        THEN <<Rat(1, 10)>> ELSE <<>>

\* a length rule that looks at the characters instead of the words
length_mut_chars(text) ==
    IF Len(text) < 5 \/ Len(text) > 500 THEN <<Rat(1, 10)>> ELSE <<>>

\* lines 68-71
length_scores(text) ==
    LET word_count == split_len(text)
    IN  IF word_count < 5 \/ word_count > 500 THEN <<Rat(1, 10)>> ELSE <<>>

\* lines 46-71: what each rule appended to analyze's local list scores
scores_by_rule(text) ==
    [sensational |-> sensational_scores(text),
     exclamation |-> exclamation_scores(text),
     caps        |-> caps_scores(text),
     pattern     |-> pattern_scores(text),
     length      |-> length_scores(text)]

\* lines 73-74: what analyze returns once the rules have run
analyze_result(by_rule) ==
    LET all_scores == by_rule.sensational \o by_rule.exclamation \o by_rule.caps
                        \o by_rule.pattern \o by_rule.length
    IN  [fake_score |-> RMin(RSum(all_scores), One), method |-> "rule-based"]

\* SimpleRuleBasedDetector.analyze
analyze(text) == analyze_result(scores_by_rule(text))

\* ------------------------------------------------------------ TransformerBasedDetector

None == "None"

\* text[:512]
TRUNCATE_AT == 512

negative == <<"n","e","g","a","t","i","v","e">>

\* a polarity test that forgets to lower-case the label
polarity_mut_case(label, score) ==
    IF label = negative THEN score ELSE RSub(One, score)

\* lines 117-125: the share of "fake" read off the sentiment
polarity(label, score) ==
    IF lower(label) = negative THEN score ELSE RSub(One, score)

\* TransformerBasedDetector.analyze; out is what self.pipeline(text) does
\* when it is called: it raises, or returns a label and a score
transformer_analyze(pl, out) ==
    IF pl = None
    THEN [fake_score |-> Half, error |-> "Model not loaded", method |-> "transformer"]
    ELSE IF out.kind = "raise"
    THEN [fake_score |-> Half, error |-> out.msg, method |-> "transformer"]
    ELSE [fake_score |-> polarity(out.label, out.score),
          sentiment  |-> lower(out.label),
          confidence |-> out.score,
          method     |-> "transformer"]

\* ------------------------------------------------------------ FakeNewsDetector

\* lines 165-170
empty_verdict ==
    [fake_score |-> 500, confidence |-> 0, label |-> "UNKNOWN", error |-> "Empty text"]

\* a fusion that takes whatever score the transformer result carries
combined_mut_placeholder(rule_score, transformer_result) ==
    RAdd(RMul(Rat(6, 10), rule_score), RMul(Rat(4, 10), transformer_result.fake_score))

\* a fusion whose weights do not add up to one
combined_mut_weights(rule_score, transformer_result) ==
    IF "fake_score" \in DOMAIN transformer_result /\ "error" \notin DOMAIN transformer_result
    THEN RAdd(RMul(Rat(6, 10), rule_score), RMul(Rat(6, 10), transformer_result.fake_score))
    ELSE rule_score

\* lines 181-183
combined_score(rule_score, transformer_result) ==
    IF "fake_score" \in DOMAIN transformer_result /\ "error" \notin DOMAIN transformer_result
    THEN RAdd(RMul(Rat(6, 10), rule_score), RMul(Rat(4, 10), transformer_result.fake_score))
    ELSE rule_score

\* a confidence that is the bare distance from the threshold
confidence_mut_single(fake_score) == RAbsDiff(fake_score, Half)

\* line 186
confidence_of(fake_score) == RMul(RAbsDiff(fake_score, Half), Rat(2, 1))

\* a label that calls the threshold itself fake
label_mut_inclusive(fake_score) == IF RLeq(Half, fake_score) THEN "FAKE" ELSE "REAL"

\* line 187
label_of(fake_score) == IF RLess(Half, fake_score) THEN "FAKE" ELSE "REAL"

\* line 193
method_of(ut) == IF ut THEN "hybrid" ELSE "rule-based"

\* what self.pipeline did when it was not called
NotCalled == [kind |-> "not called"]

\* no call has returned yet
NoResult == [pending |-> TRUE]

\* lines 177-178 and 109: is self.pipeline(text) reached by predict(t)
reaches_pipeline(ut, td, pl, t) == ~is_blank(t) /\ ut /\ td # None /\ pl # None

\* lines 173-183: predict's local fake_score once the results are fused;
\* rule_result is what line 173 got from the heuristic scorer
fused_score(ut, td, pl, rule_result, out) ==
    IF ut /\ td # None
    THEN combined_score(rule_result.fake_score, transformer_analyze(pl, out))
    ELSE rule_result.fake_score

\* lines 174-179
details_of(ut, td, pl, rule_result, out) ==
    IF ut /\ td # None
    THEN [rule_based |-> rule_result, transformer |-> transformer_analyze(pl, out)]
    ELSE [rule_based |-> rule_result]

\* lines 173-195: the verdicts predict may return for a text that is not
\* blank (two where round() meets a tie)
verdicts(ut, td, pl, rule_result, out) ==
    LET fused == fused_score(ut, td, pl, rule_result, out)
    IN  {[fake_score |-> fs,
          confidence |-> cf,
          label      |-> label_of(fused),
          method     |-> method_of(ut),
          details    |-> details_of(ut, td, pl, rule_result, out)] :
            fs \in round3(fused), cf \in round3(confidence_of(fused))}

\* FakeNewsDetector.predict(t) of a detector with these fields, when the
\* pipeline does out
predict(ut, td, pl, t, out) ==
    IF is_blank(t) THEN {empty_verdict}
    ELSE verdicts(ut, td, pl, analyze(t), out)

\* the lists that take their i-th element from the i-th of the sets
RECURSIVE Product(_)
Product(sets) ==
    IF sets = <<>> THEN {<<>>}
    ELSE {<<h>> \o t : h \in Head(sets), t \in Product(Tail(sets))}

\* a batch that leaves the blank entries out
predict_batch_mut_filtered(ut, td, pl, ts, outs) ==
    LET idx == SelectSeq([i \in DOMAIN ts |-> i], LAMBDA i : ~is_blank(ts[i]))
    IN  Product([k \in DOMAIN idx |->
                    predict(ut, td, pl, ts[idx[k]], outs[idx[k]])])

\* FakeNewsDetector.predict_batch(ts): [self.predict(text) for text in texts],
\* outs[i] being what the pipeline does in the i-th call; the lists it may return
predict_batch(ut, td, pl, ts, outs) ==
    Product([i \in DOMAIN ts |-> predict(ut, td, pl, ts[i], outs[i])])

\* ------------------------------------------------------------ app.py

\* line 119
MAX_ITEMS == 50

\* a test that keeps every entry
nonblank_mut_all(t) == TRUE

\* app.py line 124, detector_app.py lines 125-127: is text.strip() truthy
nonblank(t) == strip(t) # <<>>

\* lines 122-129: the results the handler may build for the entries ts; the
\* text of an entry is cut to 100 characters, not stripped
batch_results(ut, td, pl, ts, outs) ==
    LET idx == SelectSeq([i \in DOMAIN ts |-> i], LAMBDA i : nonblank(ts[i]))
        per(k) == {[text |-> prefix(ts[idx[k]], 100), result |-> v] :
                     v \in predict(ut, td, pl, strip(ts[idx[k]]), outs[idx[k]])}
    IN  Product([k \in DOMAIN idx |-> per(k)])

\* lines 134-138
summary_of(results) ==
    [total |-> Len(results),
     fake  |-> Len(SelectSeq(results, LAMBDA r : r.result.label = "FAKE")),
     real  |-> Len(SelectSeq(results, LAMBDA r : r.result.label = "REAL"))]

\* analyze_batch for request.get_json()["texts"] = ts, a list of strings:
\* the responses it may give
analyze_batch(ut, td, pl, ts, outs) ==
    IF ts = <<>>
    THEN {[status |-> 400, error |-> "Invalid text list"]}
    ELSE IF Len(ts) > MAX_ITEMS
    THEN {[status |-> 400, error |-> "Too many items (max 50)"]}
    ELSE {[status |-> 200, success |-> TRUE, results |-> rs, summary |-> summary_of(rs)] :
            rs \in batch_results(ut, td, pl, ts, outs)}

\* ------------------------------------------------------------ detector_app.py

\* print_result, lines 36-39 and 46: the keys it reads whatever the verdict
printed_keys == {"label", "fake_score", "confidence", "method"}

\* print_result(text, result): it prints, or result[key] raises KeyError
print_result(res) ==
    IF printed_keys \subseteq DOMAIN res THEN "printed" ELSE "KeyError"

\* batch_mode, lines 123-129: the (text, result) pairs it may collect from the
\* lines of the file; the text of a pair is the stripped line
cli_results(ut, td, pl, ts, outs) ==
    LET idx == SelectSeq([i \in DOMAIN ts |-> i], LAMBDA i : nonblank(ts[i]))
        per(k) == {[text |-> strip(ts[idx[k]]), result |-> v, index |-> idx[k]] :
                     v \in predict(ut, td, pl, strip(ts[idx[k]]), outs[idx[k]])}
    IN  Product([k \in DOMAIN idx |-> per(k)])

\* batch_mode(detector, file_path) for a file with the lines ts: what it
\* prints, or the exit of lines 141-143 when print_result raises
batch_mode(ut, td, pl, ts, outs) ==
    {IF \E k \in DOMAIN rs : print_result(rs[k].result) # "printed"
     THEN [exit |-> 1, error |-> "Error reading file: 'method'"]
     ELSE [exit |-> 0,
           results |-> rs,
           fake_count |-> Len(SelectSeq(rs, LAMBDA r : r.result.label = "FAKE")),
           real_count |-> Len(rs) - Len(SelectSeq(rs, LAMBDA r : r.result.label = "FAKE")),
           total |-> Len(rs)] :
       rs \in cli_results(ut, td, pl, ts, outs)}

\* ------------------------------------------------------------ url_analyzer.py

\* a fusion that takes the average the comment of line 222 speaks of
overall_mut_average(title_score, content_score) ==
    Rat(5 * title_score + 5 * content_score, 10000)

\* lines 223-226: combined_score, from the fake_score fields of the two
\* verdicts, which are thousandths
overall_score(title_score, content_score) ==
    Rat(3 * title_score + 7 * content_score, 10000)

\* lines 209-214: results before the analyses are added
url_results(fetched) ==
    [url |-> fetched.url,
     title |-> fetched.title,
     content_preview |-> prefix(fetched.content, 200),
     status |-> "success"]

\* lines 222-234: results with the overall score and label, given the
\* verdicts that were added (NoResult for one that was not)
with_overall(results, title_result, content_result) ==
    LET with_title == IF title_result = NoResult THEN results
                      ELSE [k \in DOMAIN results \cup {"title_analysis"} |->
                              IF k = "title_analysis" THEN title_result ELSE results[k]]
        with_both == IF content_result = NoResult THEN with_title
                     ELSE [k \in DOMAIN with_title \cup {"content_analysis"} |->
                             IF k = "content_analysis" THEN content_result ELSE with_title[k]]
        keys == DOMAIN with_both \cup {"overall_fake_score", "overall_label"}
    IN  IF title_result # NoResult /\ content_result # NoResult
        THEN LET combined == overall_score(title_result.fake_score, content_result.fake_score)
             IN  {[k \in keys |->
                     IF k = "overall_fake_score" THEN fs
                     ELSE IF k = "overall_label"
                          THEN (IF RLess(Half, combined) THEN "FAKE" ELSE "REAL")
                     ELSE with_both[k]] : fs \in round3(combined)}
        ELSE IF content_result # NoResult
        THEN {[k \in keys |->
                 IF k = "overall_fake_score" THEN content_result.fake_score
                 ELSE IF k = "overall_label" THEN content_result.label
                 ELSE with_both[k]]}
        ELSE IF title_result # NoResult
        THEN {[k \in keys |->
                 IF k = "overall_fake_score" THEN title_result.fake_score
                 ELSE IF k = "overall_label" THEN title_result.label
                 ELSE with_both[k]]}
        ELSE {with_both}

\* line 217 and line 221: is the title, is the content handed to predict
title_analysed(fetched, flags) == flags.analyze_title /\ fetched.title # <<>>

content_analysed(fetched, flags) == flags.analyze_content /\ fetched.content # <<>>

\* URLArticleAnalyzer.analyze_url once fetch_article has returned fetched;
\* out_title and out_content are what the pipeline does in the two calls of
\* predict: the results it may return
analyze_url(ut, td, pl, fetched, flags, out_title, out_content) ==
    IF fetched.status # "success"
    THEN {fetched}
    ELSE UNION {with_overall(url_results(fetched), tr, cr) :
                  tr \in (IF title_analysed(fetched, flags)
                          THEN predict(ut, td, pl, fetched.title, out_title)
                          ELSE {NoResult}),
                  cr \in (IF content_analysed(fetched, flags)
                          THEN predict(ut, td, pl, prefix(fetched.content, 2000), out_content)
                          ELSE {NoResult})}

\* ------------------------------------------------------------ inputs

\* Texts are made of up to MaxTokens of these pieces, one after another
TokYWB ==
    <<"Y","o","u"," ","w","o","n","'","t"," ","B","E","L","I","E","V","E",
      " ">>

TokSHOCK ==
    <<"S","H","O","C","K","I","N","G"," ">>

TokBANG ==
    <<"!">>

TokN7 ==
    <<"T","h","e"," ","c","o","u","n","c","i","l"," ","a","p","p","r","o",
      "v","e","d"," ","a"," ","n","e","w"," ","t","r","a","n","s","i","t",
      " ","p","l","a","n","."," ">>

TokBLANK ==
    <<" ">>

Vocabulary == {TokYWB, TokSHOCK, TokBANG, TokN7, TokBLANK}

MaxTokens == 2

RECURSIVE Concat(_)
Concat(pieces) == IF pieces = <<>> THEN <<>> ELSE Head(pieces) \o Concat(Tail(pieces))

TokenTexts ==
    UNION {{Concat(p) : p \in [1..k -> Vocabulary]} : k \in 0..MaxTokens}

\* the texts of the module's own quick test (lines 209-214)
TestTexts == {
    <<"B","r","e","a","k","i","n","g",":"," ","S","c","i","e","n","t","i",
      "s","t","s"," ","d","i","s","c","o","v","e","r"," ","c","u","r","e",
      " ","f","o","r"," ","a","l","l"," ","d","i","s","e","a","s","e","s",
      "!","!","!">>,
    <<"T","h","e"," ","c","i","t","y"," ","c","o","u","n","c","i","l"," ",
      "a","p","p","r","o","v","e","d"," ","a"," ","n","e","w"," ","t","r",
      "a","n","s","p","o","r","t","a","t","i","o","n"," ","p","l","a","n",
      ".">>,
    <<"Y","o","u"," ","w","o","n","'","t"," ","B","E","L","I","E","V","E",
      " ","w","h","a","t"," ","c","e","l","e","b","r","i","t","i","e","s",
      " ","a","r","e"," ","h","i","d","i","n","g"," ","f","r","o","m"," ",
      "y","o","u","!","!","!"," ","N","u","m","b","e","r"," ","7"," ","w",
      "i","l","l"," ","s","h","o","c","k"," ","y","o","u","!","!","!">>,
    <<"A"," ","p","e","e","r","-","r","e","v","i","e","w","e","d"," ","s",
      "t","u","d","y"," ","p","u","b","l","i","s","h","e","d"," ","i","n",
      " ","N","a","t","u","r","e"," ","f","o","u","n","d"," ","n","e","w",
      " ","e","v","i","d","e","n","c","e"," ","f","o","r"," ","c","l","i",
      "m","a","t","e"," ","c","h","a","n","g","e",".">>
    }

\* the third text of the quick test
Headline3 ==
    <<"Y","o","u"," ","w","o","n","'","t"," ","B","E","L","I","E","V","E",
      " ","w","h","a","t"," ","c","e","l","e","b","r","i","t","i","e","s",
      " ","a","r","e"," ","h","i","d","i","n","g"," ","f","r","o","m"," ",
      "y","o","u","!","!","!"," ","N","u","m","b","e","r"," ","7"," ","w",
      "i","l","l"," ","s","h","o","c","k"," ","y","o","u","!","!","!">>

\* a text in which every rule but the length rule fires, one with five of the
\* sensational phrases, and one with every pattern but "you won't believe"
ClickbaitTexts == {
    <<"S","H","O","C","K","I","N","G","!","!","!"," ","Y","o","u"," ","w",
      "o","n","'","t"," ","B","E","L","I","E","V","E"," ","t","h","i","s",
      " ","s","p","o","n","s","o","r","e","d"," ","c","o","n","t","e","n",
      "t"," ","i","n"," ","a","l","l"," ","c","a","p","s">>,
    <<"S","h","o","c","k","i","n","g",","," ","u","n","b","e","l","i","e",
      "v","a","b","l","e",":"," ","t","h","i","s"," ","i","s"," ","w","h",
      "y"," ","d","o","c","t","o","r","s"," ","h","a","t","e"," ","o","n",
      "e"," ","w","e","i","r","d"," ","t","r","i","c","k">>,
    <<"S","p","o","n","s","o","r","e","d"," ","c","o","n","t","e","n","t",
      ":"," ","i","s"," ","i","t"," ","w","r","i","t","t","e","n"," ","i",
      "n"," ","A","L","L"," ","C","A","P","S","?","?","?">>
    }

\* texts that differ in the sensational phrases they hold and in nothing else
\* the rules look at: none, one, two, three and four of the phrases
PhraseTexts == {
    <<"t","h","i","s"," ","i","s"," ","h","o","w"," ","d","o","c","t","o",
      "r","s"," ","s","e","e"," ","o","n","e"," ","o","d","d"," ","t","r",
      "i","c","k"," ","t","o","d","a","y">>,
    <<"t","h","i","s"," ","i","s"," ","w","h","y"," ","d","o","c","t","o",
      "r","s"," ","s","e","e"," ","o","n","e"," ","o","d","d"," ","t","r",
      "i","c","k"," ","t","o","d","a","y">>,
    <<"t","h","i","s"," ","i","s"," ","w","h","y"," ","d","o","c","t","o",
      "r","s"," ","h","a","t","e"," ","o","n","e"," ","o","d","d"," ","t",
      "r","i","c","k"," ","t","o","d","a","y">>,
    <<"t","h","i","s"," ","i","s"," ","w","h","y"," ","d","o","c","t","o",
      "r","s"," ","h","a","t","e"," ","o","n","e"," ","w","e","i","r","d",
      " ","t","r","i","c","k"," ","t","o","d","a","y">>,
    <<"s","h","o","c","k","i","n","g",":"," ","t","h","i","s"," ","i","s",
      " ","w","h","y"," ","d","o","c","t","o","r","s"," ","h","a","t","e",
      " ","o","n","e"," ","w","e","i","r","d"," ","t","r","i","c","k">>
    }

\* a text of 501 words
LongText == [i \in 1..1002 |-> IF i % 2 = 1 THEN "a" ELSE " "]

Texts == TokenTexts \cup TestTexts \cup ClickbaitTexts \cup PhraseTexts \cup {LongText}

\* the entries of a batch: an empty one, a blank one, the headline of a
\* short article, and a line of 105 characters that strips to Headline3
RealHeadline ==
    <<"R","e","a","l"," ","h","e","a","d","l","i","n","e",".">>

PaddedHeadline == [i \in 1..20 |-> " "] \o Headline3 \o <<"\n">>

BatchTexts == {<<>>, <<" ", " ">>, RealHeadline, PaddedHeadline}

MaxBatch == 2

\* ["", "Real headline.", "  "]
ExampleBatch == <<(<<>>), RealHeadline, <<" ", " ">>>>

Batches == UNION {[1..k -> BatchTexts] : k \in 0..MaxBatch} \cup {ExampleBatch}

\* one entry more than the web handler takes
BigBatch == [i \in 1..(MAX_ITEMS + 1) |-> RealHeadline]

\* what argparse may hand main as --text: any string that is truthy
ArgTexts == BatchTexts \ {<<>>}

\* what the sentiment pipeline may do with a text
Labels == {
    <<"N","E","G","A","T","I","V","E">>,
    <<"P","O","S","I","T","I","V","E">>,
    <<"n","e","u","t","r","a","l">>
    }

Scores == {Rat(0, 1), Rat(401, 800), Rat(501, 1000), Rat(9, 10), Rat(1, 1)}

Outcomes ==
    {[kind |-> "raise", msg |-> "CUDA out of memory"]}
    \cup {[kind |-> "result", label |-> l, score |-> s] : l \in Labels, s \in Scores}

\* what fetch_article may return: the error results of lines 124-186, and a
\* success with a title (none, blanks out of an og:title, a headline) and a
\* content, which is never empty and has no whitespace around it
ArticleUrl == "https://example.org/article"

FetchErrors ==
    {[url |-> ArticleUrl, title |-> None, content |-> None, status |-> "error",
      error |-> "Invalid URL format"],
     [url |-> ArticleUrl, title |-> RealHeadline, content |-> None, status |-> "error",
      error |-> "Could not extract article content"],
     [url |-> ArticleUrl, status |-> "error", error |-> "Request timeout (>10s)"],
     [url |-> ArticleUrl, status |-> "error", error |-> "HTTP error: 404"]}

FetchSuccesses ==
    {[url |-> ArticleUrl, title |-> t, description |-> "", content |-> c,
      status |-> "success"] :
        t \in {<<>>, <<" ", " ">>, RealHeadline, Headline3},
        c \in {RealHeadline, Headline3}}

FetchResults == FetchErrors \cup FetchSuccesses

\* the arguments analyze_title and analyze_content
Flags == [analyze_title : BOOLEAN, analyze_content : BOOLEAN]

\* what the pipeline does in the calls of analyze_url
UrlOutcomes ==
    {[kind |-> "raise", msg |-> "CUDA out of memory"],
     [kind |-> "result", label |-> <<"N","E","G","A","T","I","V","E">>,
      score |-> Rat(333, 400)]}

\* what the pipeline does in the calls of a batch
BatchOutcomes ==
    {[kind |-> "raise", msg |-> "CUDA out of memory"],
     [kind |-> "result", label |-> <<"P","O","S","I","T","I","V","E">>, score |-> Rat(9, 10)]}

\* one outcome for each text handed to predict, none where the pipeline is
\* not reached
outcomes_for(ut, td, pl, ts) ==
    {outs \in [DOMAIN ts -> BatchOutcomes \cup {NotCalled}] :
        \A i \in DOMAIN ts :
            outs[i] = NotCalled <=> ~reaches_pipeline(ut, td, pl, ts[i])}

\* predict's fake_score before line 174 assigns it
Unset == [unset |-> TRUE]

\* ------------------------------------------------------------ state

VARIABLES
    use_transformer,      \* FakeNewsDetector.use_transformer
    transformer_detector, \* None, or the TransformerBasedDetector built
    pipeline,             \* TransformerBasedDetector.pipeline: None or loaded
    pc,                   \* "idle", "called": predict(text) is running,
                          \* "returned": its verdict is with the caller; the
                          \* name of another operation: its output is
    text,                 \* the argument of the call
    result,               \* what the last call returned, NoResult before it does
    rule_calls,           \* the texts the last call gave to rule_detector.analyze
    pipeline_calls,       \* the texts the last call gave to self.pipeline
    outcome,              \* what self.pipeline did in the last call
    fake_score,           \* predict's local fake_score as lines 186-190 read it
    sensational_score,    \* SimpleRuleBasedDetector.sensational_score
    scores,               \* analyze's local scores in the last call, rule by rule
    raised_before,        \* has self.pipeline raised in an earlier call
    texts,                \* the list a batch operation was given, or the texts
                          \* analyze_url gave to detector.predict
    response,             \* what an operation other than predict gave back
    fetch_result,         \* analyze_url: what fetch_article returned
    flags                 \* analyze_url: analyze_title and analyze_content

\* the fields of the detector and of the two detectors it holds
detector == <<use_transformer, transformer_detector, pipeline, sensational_score>>

\* what a call of predict or analyze leaves with its caller
call_vars == <<text, result, rule_calls, pipeline_calls, outcome, fake_score, scores>>

vars == <<use_transformer, transformer_detector, pipeline, pc, text, result,
          rule_calls, pipeline_calls, outcome, fake_score, sensational_score,
          scores, raised_before, texts, response, fetch_result, flags>>

\* what a call of analyze_url starts from
url_vars == <<fetch_result, flags>>

\* FakeNewsDetector.__init__, TransformerBasedDetector.__init__ and _init_model:
\* the pipeline stays None when transformers is missing or the load fails
Init ==
    /\ use_transformer \in BOOLEAN
    /\ transformer_detector = IF use_transformer THEN "TransformerBasedDetector" ELSE None
    /\ pipeline \in (IF use_transformer THEN {None, "loaded"} ELSE {None})
    /\ pc = "idle"
    /\ text = <<>>
    /\ result = NoResult
    /\ rule_calls = <<>>
    /\ pipeline_calls = <<>>
    /\ outcome = NotCalled
    /\ fake_score = Unset
    /\ sensational_score = Zero
    /\ scores = Unset
    /\ raised_before = FALSE
    /\ texts = <<>>
    /\ response = NoResult
    /\ fetch_result = NoResult
    /\ flags = Unset

\* a caller hands predict a text
Call ==
    /\ pc = "idle"
    /\ \E t \in Texts : text' = t
    /\ pc' = "called"
    /\ result' = NoResult
    /\ rule_calls' = <<>>
    /\ pipeline_calls' = <<>>
    /\ outcome' = NotCalled
    /\ fake_score' = Unset
    /\ scores' = Unset
    /\ UNCHANGED <<detector, raised_before, texts, response, url_vars>>

\* a handler that gives up the pipeline once it has raised
pipeline_mut_dropped(pl, out) == IF out.kind = "raise" THEN None ELSE pl

\* lines 107-135: analyze reads self.pipeline and never assigns it, in the
\* except branch as little as anywhere else
pipeline_after(pl, out) == pl

\* a scorer that keeps a running total in its attribute
sensational_mut_running(s, t) == RAdd(s, analyze(t).fake_score)

\* lines 40-41 and 43-74: analyze never assigns self.sensational_score
sensational_after(s, t) == s

\* FakeNewsDetector.predict, from the empty-text test to the return
Predict ==
    /\ pc = "called"
    /\ pc' = "returned"
    /\ LET blank == is_blank(text)
           by_rule == scores_by_rule(text)
           rule_result == analyze_result(by_rule)
       IN  \E out \in (IF reaches_pipeline(use_transformer, transformer_detector, pipeline, text)
                       THEN Outcomes ELSE {NotCalled}) :
            /\ result' \in (IF blank THEN {empty_verdict}
                            ELSE verdicts(use_transformer, transformer_detector,
                                          pipeline, rule_result, out))
            /\ fake_score' = IF blank THEN Unset
                             ELSE fused_score(use_transformer, transformer_detector,
                                              pipeline, rule_result, out)
            /\ rule_calls' = IF blank THEN <<>> ELSE <<text>>
            /\ pipeline_calls' = IF out = NotCalled THEN <<>>
                                 ELSE <<prefix(text, TRUNCATE_AT)>>
            /\ scores' = IF blank THEN Unset ELSE by_rule
            /\ outcome' = out
            /\ pipeline' = pipeline_after(pipeline, out)
            /\ raised_before' = (raised_before \/ out.kind = "raise")
            /\ sensational_score' = IF blank THEN sensational_score
                                    ELSE sensational_after(sensational_score, text)
    /\ UNCHANGED <<use_transformer, transformer_detector, text, texts, response, url_vars>>

\* has the pipeline raised in one of these calls
raised_in(outs) == \E i \in DOMAIN outs : outs[i].kind = "raise"

\* predict_batch(texts), the whole list comprehension
PredictBatch ==
    /\ pc = "idle"
    /\ pc' = "predict_batch"
    /\ \E ts \in Batches :
        \E outs \in outcomes_for(use_transformer, transformer_detector, pipeline, ts) :
            /\ texts' = ts
            /\ response' \in predict_batch(use_transformer, transformer_detector,
                                           pipeline, ts, outs)
            /\ raised_before' = (raised_before \/ raised_in(outs))
    /\ UNCHANGED <<detector, call_vars, url_vars>>

\* POST /api/analyze-batch with a list of strings; app.py builds its detector
\* with use_transformer=False (line 28)
AnalyzeBatch ==
    /\ pc = "idle"
    /\ ~use_transformer
    /\ pc' = "analyze_batch"
    /\ \E ts \in Batches \cup {BigBatch} :
        /\ texts' = ts
        /\ response' \in analyze_batch(use_transformer, transformer_detector, pipeline,
                                       ts, [i \in DOMAIN ts |-> NotCalled])
    /\ UNCHANGED <<detector, call_vars, raised_before, url_vars>>

\* detector_app.py --file: batch_mode over the lines of the file
BatchMode ==
    /\ pc = "idle"
    /\ pc' = "batch_mode"
    /\ \E ts \in Batches :
        \E outs \in outcomes_for(use_transformer, transformer_detector, pipeline,
                                  [i \in DOMAIN ts |-> strip(ts[i])]) :
            /\ texts' = ts
            /\ response' \in batch_mode(use_transformer, transformer_detector,
                                        pipeline, ts, outs)
            /\ raised_before' = (raised_before \/ raised_in(outs))
    /\ UNCHANGED <<detector, call_vars, url_vars>>

\* detector_app.py --text: main, lines 191-195, for an args.text that is truthy
MainText ==
    /\ pc = "idle"
    /\ pc' = "main"
    /\ \E t \in ArgTexts :
        \E out \in (IF reaches_pipeline(use_transformer, transformer_detector, pipeline, t)
                    THEN BatchOutcomes ELSE {NotCalled}) :
        \E v \in predict(use_transformer, transformer_detector, pipeline, t, out) :
            /\ text' = t
            /\ response' = [result |-> v, print_result |-> print_result(v)]
            /\ raised_before' = (raised_before \/ out.kind = "raise")
    /\ UNCHANGED <<detector, result, rule_calls, pipeline_calls, outcome, fake_score,
                   scores, texts, url_vars>>

\* SimpleRuleBasedDetector.analyze(text), called on its own
Analyze ==
    /\ pc = "idle"
    /\ pc' = "analyze"
    /\ \E t \in Texts :
        /\ text' = t
        /\ scores' = scores_by_rule(t)
        /\ response' = analyze_result(scores_by_rule(t))
        /\ sensational_score' = sensational_after(sensational_score, t)
    /\ UNCHANGED <<use_transformer, transformer_detector, pipeline, result, rule_calls,
                   pipeline_calls, outcome, fake_score, raised_before, texts, url_vars>>

\* URLArticleAnalyzer.analyze_url, from the return of fetch_article on; the
\* analyzer holds a FakeNewsDetector of its own (url_analyzer.py line 113)
AnalyzeUrl ==
    /\ pc = "idle"
    /\ pc' = "analyze_url"
    /\ \E fetched \in FetchResults, fl \in Flags :
        LET ok == fetched.status = "success"
            to_predict ==
                (IF ok /\ title_analysed(fetched, fl) THEN <<fetched.title>> ELSE <<>>)
                \o (IF ok /\ content_analysed(fetched, fl)
                    THEN <<prefix(fetched.content, 2000)>> ELSE <<>>)
        IN  \E outs \in {o \in [{"title", "content"} -> UrlOutcomes \cup {NotCalled}] :
                            /\ o.title = NotCalled <=>
                                 ~(ok /\ title_analysed(fetched, fl)
                                   /\ reaches_pipeline(use_transformer, transformer_detector,
                                                       pipeline, fetched.title))
                            /\ o.content = NotCalled <=>
                                 ~(ok /\ content_analysed(fetched, fl)
                                   /\ reaches_pipeline(use_transformer, transformer_detector,
                                                       pipeline, fetched.content))} :
                /\ fetch_result' = fetched
                /\ flags' = fl
                /\ texts' = to_predict
                /\ response' \in analyze_url(use_transformer, transformer_detector, pipeline,
                                              fetched, fl, outs.title, outs.content)
                /\ raised_before' = (raised_before \/ outs.title.kind = "raise"
                                                   \/ outs.content.kind = "raise")
    /\ UNCHANGED <<detector, call_vars>>

\* the caller has read what the operation returned; nothing of it stays behind
\* in the detector
Return ==
    /\ pc \notin {"idle", "called"}
    /\ pc' = "idle"
    /\ text' = <<>>
    /\ result' = NoResult
    /\ rule_calls' = <<>>
    /\ pipeline_calls' = <<>>
    /\ outcome' = NotCalled
    /\ fake_score' = Unset
    /\ scores' = Unset
    /\ texts' = <<>>
    /\ response' = NoResult
    /\ fetch_result' = NoResult
    /\ flags' = Unset
    /\ UNCHANGED <<detector, raised_before>>

Next ==
    \/ Call
    \/ Predict
    \/ PredictBatch
    \/ AnalyzeBatch
    \/ BatchMode
    \/ MainText
    \/ Analyze
    \/ AnalyzeUrl
    \/ Return

Spec == Init /\ [][Next]_vars

\* ------------------------------------------------------------ properties

\* a call of predict has returned
Returned == pc = "returned"

\* the verdict comes from lines 189-195, not from the empty-text return
Scored == Returned /\ "details" \in DOMAIN result

\* every character of the text is whitespace (the empty text included)
AllWhitespace == {text[i] : i \in 1..Len(text)} \subseteq Whitespace

\* the external classification entered the fused score: the collaborator was
\* requested, its model was loaded and the call returned a label and a score
ExternalUsed == use_transformer /\ pipeline # None /\ outcome.kind = "result"

\* two thousandths values and the distance between them
Distance(a, b) == IF a >= b THEN a - b ELSE b - a

\* C1: the verdict's method is "hybrid" exactly when an external
\* classification was used in the fused score of that call.
C1_HybridIffUsed ==
    Scored => (result.method = "hybrid" <=> ExternalUsed)

\* C2: the confidence field is |fake_score - 0.5| * 2 of the verdict's own
\* rounded fake_score field, exactly.
C2_ConfidenceOfField ==
    Returned => result.confidence = 2 * Distance(result.fake_score, 500)

\* C2, amended: the confidence field is round(|s - 0.5| * 2, 3) of the
\* unrounded score s that fake_score is the rounding of; it is within 0.001 of
\* |fake_score - 0.5| * 2 taken from the rounded field, and equal to it in the
\* verdict for an empty text.
C2_ConfidenceOfUnrounded ==
    /\ Scored =>
        /\ result.fake_score \in round3(fake_score)
        /\ result.confidence \in
              round3(RAdd(RAbsDiff(fake_score, Half), RAbsDiff(fake_score, Half)))
        /\ Distance(result.confidence, 2 * Distance(result.fake_score, 500)) <= 1
    /\ (Returned /\ ~Scored) =>
        result.confidence = 2 * Distance(result.fake_score, 500)

\* C2, witness: a verdict whose confidence is not the one its rounded
\* fake_score field gives.
C2_Witness ==
    Scored /\ result.confidence # 2 * Distance(result.fake_score, 500)

\* C3: for a text that is not blank the label is FAKE exactly when the
\* rounded fake_score field is above 0.5; a field of exactly 0.5 is REAL.
C3_LabelOfField ==
    Scored => (result.label = "FAKE" <=> result.fake_score > 500)

\* C3, amended: the label is FAKE exactly when the unrounded score is above
\* 0.5, else REAL; so a FAKE verdict has a fake_score field of at least 0.5
\* and a REAL one a field of at most 0.5, and a field of exactly 0.5 may carry
\* either label.
C3_LabelOfUnrounded ==
    Scored =>
        /\ result.label \in {"FAKE", "REAL"}
        /\ result.label = "FAKE" <=> 2 * fake_score.n > fake_score.d
        /\ result.label = "FAKE" => result.fake_score >= 500
        /\ result.label = "REAL" => result.fake_score <= 500

\* C3, witness: a FAKE verdict with a fake_score field of exactly 0.5.
C3_Witness ==
    Scored /\ result.label = "FAKE" /\ result.fake_score = 500

\* C4: fake_score and confidence of every verdict lie in [0, 1], whatever
\* the text and whatever the collaborator did.
C4_UnitInterval ==
    Returned =>
        /\ 0 <= result.fake_score /\ result.fake_score <= 1000
        /\ 0 <= result.confidence /\ result.confidence <= 1000

\* C4, witness: a fused score at the upper end, from a heuristic sum above 1
\* and an external score of 1.
C4_Witness ==
    /\ Scored /\ ExternalUsed
    /\ result.fake_score = 1000 /\ result.confidence = 1000
    /\ result.details.transformer.fake_score = One

FailureCase ==
    \/ AllWhitespace
    \/ use_transformer /\ pipeline = None
    \/ outcome.kind = "raise"

C6_WellFormedOnFailure ==
    (Returned /\ FailureCase) =>
        /\ {"fake_score", "confidence", "label", "method", "details"}
              \subseteq DOMAIN result
        /\ result.method \in {"rule-based", "hybrid"}

\* C7: with no usable external classification (not requested, model not
\* loaded, call raised) the fused score of a text that is not blank is the
\* heuristic score, the placeholder 0.5 stays out of it, and the error string
\* of a raised call is kept under details.transformer.
C7_FallbackIsHeuristic ==
    (Scored /\ ~ExternalUsed) =>
        /\ result.details.rule_based = analyze(text)
        /\ fake_score = result.details.rule_based.fake_score
        /\ result.fake_score \in round3(result.details.rule_based.fake_score)
        /\ use_transformer =>
            /\ "transformer" \in DOMAIN result.details
            /\ "error" \in DOMAIN result.details.transformer
            /\ result.details.transformer.fake_score = Half
        /\ ~use_transformer => "transformer" \notin DOMAIN result.details
        /\ outcome.kind = "raise" =>
              result.details.transformer.error = outcome.msg

\* C7, witness: the call raised, and the heuristic score is not the
\* placeholder's 0.5.
C7_Witness ==
    /\ Scored /\ outcome.kind = "raise"
    /\ result.details.rule_based.fake_score # Half

\* a capital letter with its small letter
CasePairs == {<<UpperSeq[k], LowerSeq[k]>> : k \in DOMAIN UpperSeq}

\* the same letter, in either case
SameLetter(a, b) == a = b \/ <<a, b>> \in CasePairs \/ <<b, a>> \in CasePairs

\* two texts that differ in the case of their letters at most
SameIgnoringCase(a, b) ==
    /\ Len(a) = Len(b)
    /\ \A i \in 1..Len(a) : SameLetter(a[i], b[i])

\* the external share of "fake": the score of a label that reads "negative",
\* one minus the score of any other label
ExternalFake ==
    IF SameIgnoringCase(outcome.label, <<"n","e","g","a","t","i","v","e">>)
    THEN outcome.score
    ELSE [n |-> outcome.score.d - outcome.score.n, d |-> outcome.score.d]

\* C8: with a clean external result (label, c) and heuristic score h the
\* unrounded fused score is 0.6 * h + 0.4 * e, e = c for a label that
\* lower-cases to "negative" and 1 - c for any other; "negative", c = 0.9,
\* h = 0.4 gives 0.60 and FAKE.
C8_FusedIsWeighted ==
    (Scored /\ ExternalUsed) =>
        LET h == result.details.rule_based.fake_score
            e == ExternalFake
        IN  /\ result.details.transformer.fake_score = e
            /\ fake_score = Rat(6 * h.n * e.d + 4 * e.n * h.d, 10 * h.d * e.d)
            /\ ( /\ h = Rat(2, 5)
                 /\ outcome.score = Rat(9, 10)
                 /\ SameIgnoringCase(outcome.label, <<"n","e","g","a","t","i","v","e">>) )
               => /\ fake_score = Rat(3, 5)
                  /\ result.fake_score = 600
                  /\ result.label = "FAKE"

\* C8, witness: the pipeline answers NEGATIVE with 0.9 for a text of
\* heuristic score 0.4.
C8_Witness ==
    /\ Scored /\ ExternalUsed
    /\ result.details.rule_based.fake_score = Rat(2, 5)
    /\ outcome.score = Rat(9, 10)
    /\ outcome.label = <<"N","E","G","A","T","I","V","E">>

\* the features of the text that the rules of analyze read, each counted on
\* the text itself

\* phrase occurs in the text, letters compared without regard to case
Mentions(phrase) ==
    \E i \in 1..(Len(text) - Len(phrase) + 1) :
        \A j \in 1..Len(phrase) : SameLetter(text[i + j - 1], phrase[j])

NPhrases ==
    Cardinality({k \in DOMAIN SENSATIONAL_WORDS : Mentions(SENSATIONAL_WORDS[k])})

Bangs == Len(SelectSeq(text, LAMBDA c : c = "!"))

\* a word ends where a character that is not whitespace is the last one or
\* is followed by whitespace
Words ==
    Cardinality({i \in 1..Len(text) :
                    /\ text[i] \notin Whitespace
                    /\ (i = Len(text) \/ text[i + 1] \in Whitespace)})

Uppers == Len(SelectSeq(text, LAMBDA c : c \in UpperChars))

Alphas == Len(SelectSeq(text, LAMBDA c : c \in UpperChars \cup LowerChars))

HasRun ==
    \E i \in 1..(Len(text) - 2) : {text[i], text[i + 1], text[i + 2]} \subseteq {"!", "?"}

PatternHits ==
    (IF Mentions(<<"a","l","l"," ","c","a","p","s">>) THEN 1 ELSE 0)
    + (IF HasRun THEN 1 ELSE 0)
    + (IF Mentions(SENSATIONAL_WORDS[3]) THEN 1 ELSE 0)
    + (IF Mentions(<<"s","p","o","n","s","o","r","e","d"," ",
                     "c","o","n","t","e","n","t">>) THEN 1 ELSE 0)

SensationalPart ==
    LET n == NPhrases
    IN  IF n = 0 THEN Zero
        ELSE IF 15 * n < 50 THEN Rat(15 * n, 100) ELSE Rat(50, 100)

\* r = Bangs / max(Words, 1); r > 0.05 is 20 * Bangs > max(Words, 1), and
\* 2r < 0.3 is 20 * Bangs < 3 * max(Words, 1)
ExclamationPart ==
    LET bangs == Bangs
        words == Max(Words, 1)
    IN  IF 20 * bangs <= words THEN Zero
        ELSE IF 20 * bangs < 3 * words THEN Rat(2 * bangs, words)
        ELSE Rat(3, 10)

CapsPart == IF 10 * Uppers > 3 * Max(Alphas, 1) THEN Rat(2, 10) ELSE Zero

PatternPart == Rat(15 * PatternHits, 100)

LengthPart ==
    LET words == Words
    IN  IF words < 5 \/ words > 500 THEN Rat(1, 10) ELSE Zero

RuleSum ==
    RAdd(SensationalPart,
         RAdd(ExclamationPart, RAdd(CapsPart, RAdd(PatternPart, LengthPart))))

\* C9: analyze returns min(S, 1.0), S the sum of min(0.15 * n, 0.5) for n > 0
\* listed phrases in the lower-cased text, min(2r, 0.3) if r = count('!') /
\* max(words, 1) > 0.05, 0.2 if upper-case letters / max(letters, 1) > 0.3,
\* 0.15 for each suspicious pattern that matches, and 0.1 if words < 5 or
\* words > 500.
C9_BoundedSum ==
    Scored =>
        /\ LET sum == RuleSum
           IN  result.details.rule_based.fake_score
                  = (IF sum.n > sum.d THEN One ELSE sum)
        /\ result.details.rule_based.method = "rule-based"

\* C9, witness: "you won't believe" counts under the sensational rule and
\* under the pattern rule of one text, in a sum that is not clamped.
C9_Witness ==
    /\ Scored
    /\ Mentions(SENSATIONAL_WORDS[3])
    /\ NPhrases = 1 /\ PatternHits = 1
    /\ ExclamationPart = Zero /\ CapsPart = Zero /\ LengthPart = Zero
    /\ result.details.rule_based.fake_score = Rat(30, 100)

\* C10: in rule-based mode the third text of the quick test gets several
\* sensational hits, the "!!!" pattern and the caps rule, and so fake_score
\* 1.0 (clamped), label FAKE and confidence 1.0.
C10_HeadlineClamped ==
    (Scored /\ text = Headline3 /\ ~use_transformer) =>
        /\ result.fake_score = 1000
        /\ result.label = "FAKE"
        /\ result.confidence = 1000

\* C10, amended: in rule-based mode that text gets one sensational hit ("you
\* won't believe", 0.15), the exclamation rule at its cap (0.3) and two
\* patterns ("!!!" and "you won't believe", 0.15 each); the caps rule and the
\* length rule do not fire; fake_score is 0.75 (not clamped), the label FAKE
\* and the confidence 0.5.
C10_HeadlineThreeQuarters ==
    (Scored /\ text = Headline3 /\ ~use_transformer) =>
        /\ NPhrases = 1 /\ Mentions(SENSATIONAL_WORDS[3])
        /\ ExclamationPart = Rat(3, 10)
        /\ PatternHits = 2 /\ HasRun
        /\ CapsPart = Zero /\ LengthPart = Zero
        /\ result.details.rule_based.fake_score = Rat(3, 4)
        /\ result.fake_score = 750
        /\ result.label = "FAKE"
        /\ result.confidence = 500
        /\ result.method = "rule-based"

\* C10, witness: predict returned for that text in rule-based mode.
C10_Witness ==
    /\ Scored /\ text = Headline3 /\ ~use_transformer
    /\ result.label = "FAKE"

\* the listed phrases the text of the call holds, and those another text holds
PhrasesHere == {k \in DOMAIN SENSATIONAL_WORDS : Mentions(SENSATIONAL_WORDS[k])}

PhrasesOf(u) ==
    {k \in DOMAIN SENSATIONAL_WORDS : contains(lower(u), SENSATIONAL_WORDS[k])}

\* what the other four rules contribute to the text of the call
OtherParts == <<LengthPart, ExclamationPart, CapsPart, PatternPart>>

\* the other four rules contribute to u what they contribute to the text of
\* the call
OtherRulesEqual(u, others) ==
    /\ RSum(length_scores(u)) = others[1]
    /\ RSum(exclamation_scores(u)) = others[2]
    /\ RSum(caps_scores(u)) = others[3]
    /\ RSum(pattern_scores(u)) = others[4]

\* C11: of two texts to which the other rules contribute the same, the one
\* whose set of sensational phrases includes the other's gets a heuristic
\* fake_score at least as large, and the contribution of the sensational
\* rule itself is never more than 0.5.
C11_PhraseMonotone ==
    Scored =>
        /\ \A i \in DOMAIN scores.sensational : RLeq(scores.sensational[i], Half)
        /\ LET here == PhrasesHere
               others == OtherParts
               mine == result.details.rule_based.fake_score
           IN  \A u \in PhraseTexts :
                 OtherRulesEqual(u, others) =>
                   /\ here \subseteq PhrasesOf(u) => RLeq(mine, analyze(u).fake_score)
                   /\ PhrasesOf(u) \subseteq here => RLeq(analyze(u).fake_score, mine)

\* a call on a text with four or more phrases, where the cap is what the rule
\* gives, next to a text with fewer phrases and a strictly smaller score
C11_Witness ==
    /\ Scored
    /\ Cardinality(PhrasesHere) >= 4
    /\ scores.sensational = <<Half>>
    /\ \E u \in PhraseTexts :
          /\ OtherRulesEqual(u, OtherParts)
          /\ PhrasesOf(u) \subseteq PhrasesHere
          /\ PhrasesOf(u) # PhrasesHere
          /\ RLess(analyze(u).fake_score, result.details.rule_based.fake_score)

\* C17: a call of predict calls the classifier at most once, with the first
\* 512 characters of the text (the whole text when it is shorter), while the
\* heuristic scorer gets the whole text; a classifier that is not loaded is
\* not called at all.
C17_TruncatedOnce ==
    Returned =>
        /\ Len(pipeline_calls) <= 1
        /\ \A k \in DOMAIN pipeline_calls :
              LET given == pipeline_calls[k]
              IN  /\ Len(given) <= 512
                  /\ Len(given) = 512 \/ Len(given) = Len(text)
                  /\ \A i \in 1..Len(given) : given[i] = text[i]
        /\ Scored => /\ rule_calls = <<text>>
                     /\ LET sum == RuleSum
                        IN  result.details.rule_based.fake_score = RMin(sum, One)
        /\ pipeline = None => pipeline_calls = <<>>

\* a hybrid call on a text of more than 512 characters: the classifier got
\* 512 of them, the heuristic scorer saw all 501 words
C17_Witness ==
    /\ Scored
    /\ result.method = "hybrid"
    /\ Len(text) > 512
    /\ Len(pipeline_calls) = 1
    /\ Len(pipeline_calls[1]) = 512
    /\ result.details.rule_based.fake_score = Rat(1, 10)

\* the text of the call holds the words "all caps", in whatever case
SaysAllCaps == Mentions(<<"a","l","l"," ","c","a","p","s">>)

AsIfNothingHappened ==
    (Scored /\ raised_before) =>
        LET sum == RuleSum
            h == RMin(sum, One)
            e == ExternalFake
        IN  /\ result.details.rule_based.fake_score = h
            /\ Len(pipeline_calls) = 1
            /\ result.method = "hybrid"
            /\ IF outcome.kind = "result"
               THEN /\ "error" \notin DOMAIN result.details.transformer
                    /\ fake_score = Rat(6 * h.n * e.d + 4 * e.n * h.d, 10 * h.d * e.d)
               ELSE fake_score = h

\* C14: no call of predict changes a field of the detector, and the verdict
\* of a call depends on that call's text and on what the classifier does in
\* that call only: the heuristic score is the same function of the text in
\* every call, and after a call in which the classifier raised, a call with a
\* clean result is fused 0.6 / 0.4 as a hybrid verdict all the same.
C14_HistoryIndependent ==
    /\ []AsIfNothingHappened
    /\ [][detector' = detector]_vars

\* a hybrid call with a clean classifier result, after a call in which the
\* classifier raised
C14_Witness ==
    /\ Scored
    /\ raised_before
    /\ outcome.kind = "result"
    /\ result.method = "hybrid"

\* ------------------------------------------------------------ batches

\* one of the two batch handlers has finished
BatchDone == pc \in {"analyze_batch", "batch_mode"}

\* every character of t is whitespace
OnlyWhitespace(t) == \A i \in 1..Len(t) : t[i] \in Whitespace

\* the entries of the input that are not blank, in the order of the input
Kept == SelectSeq(texts, LAMBDA t : ~OnlyWhitespace(t))

\* the entries the handler gave out
Emitted == IF "results" \in DOMAIN response THEN response.results ELSE <<>>

\* r is t without the whitespace around it
Trimmed(t, r) ==
    \E a \in 1..Len(t) :
        /\ a + Len(r) - 1 <= Len(t)
        /\ Len(r) > 0
        /\ r[1] \notin Whitespace /\ r[Len(r)] \notin Whitespace
        /\ \A i \in 1..Len(t) :
              IF i < a \/ i > a + Len(r) - 1 THEN t[i] \in Whitespace
              ELSE t[i] = r[i - a + 1]

\* r is the first 100 characters of t
FirstHundred(t, r) ==
    /\ Len(r) = (IF Len(t) < 100 THEN Len(t) ELSE 100)
    /\ \A i \in 1..Len(r) : r[i] = t[i]

\* what the heuristic scorer makes of the two entries that are not blank
HeuristicOf(t) == IF t = RealHeadline THEN Rat(1, 10) ELSE Rat(3, 4)

\* the k-th entry given out is the k-th entry of the input that is not blank,
\* with a verdict for it
EntryFor(k) ==
    /\ IF pc = "analyze_batch" THEN FirstHundred(Kept[k], Emitted[k].text)
       ELSE Trimmed(Kept[k], Emitted[k].text)
    /\ Emitted[k].result.label \in {"FAKE", "REAL"}
    /\ Emitted[k].result.details.rule_based.fake_score = HeuristicOf(Kept[k])

\* C12 as stated: either batch handler gives out one entry with a verdict for
\* each entry of the input that is not blank, in the order of the input, and
\* nothing for a blank one.
C12_OnePerEntry ==
    BatchDone =>
        /\ Len(Emitted) = Len(Kept)
        /\ \A k \in DOMAIN Emitted : EntryFor(k)

\* C12, amended: batch_mode, and the web handler for a list of 1 to 50
\* entries, give out one entry with a verdict for each entry of the input
\* that is not blank, in the order of the input, and nothing for a blank one;
\* ["", "Real headline.", "  "] gives one verdict and total 1.  The web
\* handler answers an empty list and a list of more than 50 entries with
\* status 400 and no results.
C12_OnePerEntryOfFifty ==
    BatchDone =>
        IF pc = "analyze_batch" /\ (texts = <<>> \/ Len(texts) > 50)
        THEN /\ response.status = 400
             /\ response.error = (IF texts = <<>> THEN "Invalid text list"
                                  ELSE "Too many items (max 50)")
             /\ DOMAIN response = {"status", "error"}
        ELSE /\ Len(Emitted) = Len(Kept)
             /\ \A k \in DOMAIN Emitted : EntryFor(k)
             /\ texts = ExampleBatch =>
                   /\ Len(Emitted) = 1
                   /\ (IF pc = "analyze_batch" THEN response.summary.total
                       ELSE response.total) = 1

\* a batch of a blank entry and one that is longer than it is once stripped
C12_Witness ==
    /\ BatchDone
    /\ Len(texts) = 2
    /\ OnlyWhitespace(texts[1])
    /\ Len(Emitted) = 1
    /\ Emitted[1].text # texts[2]

\* the handler got to its summary: the web handler answered 200, batch_mode
\* left through its last line
Summarised ==
    \/ pc = "analyze_batch" /\ response.status = 200
    \/ pc = "batch_mode" /\ response.exit = 0

\* how many of the entries given out carry this label
Labelled(l) == Cardinality({k \in DOMAIN Emitted : Emitted[k].result.label = l})

\* the three numbers of the summary, as the handler at hand names them
SummaryTotal == IF pc = "analyze_batch" THEN response.summary.total ELSE response.total

SummaryFake == IF pc = "analyze_batch" THEN response.summary.fake ELSE response.fake_count

SummaryReal == IF pc = "analyze_batch" THEN response.summary.real ELSE response.real_count

\* C13: the summary of a batch counts the entries given out: total is their
\* number, fake the number labelled FAKE, real the number labelled REAL (the
\* CLI takes total - fake for it), none of them is labelled UNKNOWN, and
\* fake + real = total.
C13_SummaryCountsEmitted ==
    (BatchDone /\ Summarised) =>
        /\ SummaryTotal = Len(Emitted)
        /\ SummaryFake = Labelled("FAKE")
        /\ SummaryReal = Labelled("REAL")
        /\ Labelled("UNKNOWN") = 0
        /\ SummaryFake + SummaryReal = SummaryTotal
        /\ pc = "batch_mode" => SummaryReal = SummaryTotal - SummaryFake

\* a batch with blank entries in it whose summary counts an entry labelled
\* FAKE, and no UNKNOWN one
C13_Witness ==
    /\ BatchDone /\ Summarised
    /\ \E i \in DOMAIN texts : OnlyWhitespace(texts[i])
    /\ SummaryTotal = 1
    /\ SummaryFake = 1
    /\ SummaryReal = 0

\* the verdict of predict for a blank text, field by field
IsUnknownVerdict(v) ==
    /\ DOMAIN v = {"fake_score", "confidence", "label", "error"}
    /\ v.fake_score = 500
    /\ v.confidence = 0
    /\ v.label = "UNKNOWN"
    /\ v.error = "Empty text"

C15_EmptyScoresZero ==
    (pc = "analyze" /\ text = <<>>) =>
        /\ response.fake_score = Zero
        /\ \A r \in DOMAIN scores : scores[r] = <<>>

\* C15, amended: analyze("") raises nothing and returns fake_score 0.1: the
\* length rule contributes 0.1 for a text of no words, no other rule does.
C15_EmptyScoresTenth ==
    (pc = "analyze" /\ text = <<>>) =>
        /\ response = [fake_score |-> Rat(1, 10), method |-> "rule-based"]
        /\ scores.length = <<Rat(1, 10)>>
        /\ \A r \in DOMAIN scores \ {"length"} : scores[r] = <<>>

\* analyze("") has returned
C15_Witness ==
    /\ pc = "analyze"
    /\ text = <<>>
    /\ "fake_score" \in DOMAIN response

\* C19: whatever verdict predict returns to main for --text, print_result
\* prints it: label, fake_score, confidence and method are all there.
C19_PrintableVerdict ==
    pc = "main" =>
        /\ {"label", "fake_score", "confidence", "method"} \subseteq DOMAIN response.result
        /\ response.print_result = "printed"

\* ------------------------------------------------------------ URL analysis

\* analyze_url has returned
UrlDone == pc = "analyze_url"

Fetched == fetch_result.status = "success"

HasTitleVerdict == "title_analysis" \in DOMAIN response

HasContentVerdict == "content_analysis" \in DOMAIN response

\* 0.3 * title + 0.7 * content in ten-thousandths, the two fake_score fields
\* being thousandths
Mix == 3 * response.title_analysis.fake_score + 7 * response.content_analysis.fake_score

\* v thousandths is Mix rounded to three decimals
IsRoundedMix(v) == 10 * v - Mix \in -5..5

\* the analysis and overall keys of a result
AnalysisKeys == {"title_analysis", "content_analysis", "overall_fake_score", "overall_label"}

\* a failed fetch comes back as it is, and predict is never called
FailurePassedOn ==
    /\ response = fetch_result
    /\ DOMAIN response \cap AnalysisKeys = {}
    /\ texts = <<>>

\* with one verdict only, the overall score and label are its own
CopiedFromTheOnlyVerdict ==
    /\ (HasContentVerdict /\ ~HasTitleVerdict) =>
          /\ response.overall_fake_score = response.content_analysis.fake_score
          /\ response.overall_label = response.content_analysis.label
    /\ (HasTitleVerdict /\ ~HasContentVerdict) =>
          /\ response.overall_fake_score = response.title_analysis.fake_score
          /\ response.overall_label = response.title_analysis.label

====
